---------------------------- MODULE Spec2Model ----------------------------
(***************************************************************************)
(* AeroSense dashboard: the Dashboard component (view transitions, city    *)
(* selection, search box) and the LeafletMap component (city dataset       *)
(* fetch, fallback, polling timer).                                        *)
(*                                                                         *)
(* Each React event handler is one atomic action (the event loop runs a    *)
(* handler to completion and React commits the batched state, including    *)
(* the mount/unmount effects of LeafletMap, before the next event).  The   *)
(* asynchronous fetchCitiesData is split at its await: one action starts   *)
(* the request, one action per outcome completes it.                       *)
(*                                                                         *)
(* Sidebar, AQIDetails, CityDropdown and LoadingScreen receive the         *)
(* handlers handleViewChange, handleCityChange and handleLoadingComplete   *)
(* as callbacks; the model lets them call these handlers whenever the      *)
(* dashboard is alive.  The elements Dashboard and LeafletMap render       *)
(* themselves (search input, search results, markers, Refresh button) are  *)
(* enabled exactly when the code renders them.                             *)
(***************************************************************************)
EXTENDS Integers, Sequences, FiniteSets, TLC

\* ------------------------------------------------------------------ bounds
\* number of city-dataset requests one behaviour may start
MaxRequests == 2
\* longest text typed into the search box
MaxQueryLen == 1
\* longest city array the server answers with
MaxPayloadLen == 1
\* longest city list the filter is applied to on its own
MaxDatasetLen == 3

\* ------------------------------------------------------------ city names
\* strings are sequences of characters, so that toLowerCase and includes
\* are computed and not assumed
Delhi == <<"D", "e", "l", "h", "i">>
Mumbai == <<"M", "u", "m", "b", "a", "i">>
Hyderabad == <<"H", "y", "d", "e", "r", "a", "b", "a", "d">>
Chennai == <<"C", "h", "e", "n", "n", "a", "i">>
Bengaluru == <<"B", "e", "n", "g", "a", "l", "u", "r", "u">>
Pune == <<"P", "u", "n", "e">>
Atlantis == <<"A", "t", "l", "a", "n", "t", "i", "s">>

\* the strings a caller of handleCityChange (CityDropdown) or the sign-up
\* form (user.city) may pass: a city of every dataset and a name no dataset
\* holds
UserStrings == {Delhi, Atlantis}

\* characters typed into the search box
QueryAlphabet == {"d", "E"}

\* String.prototype.toLowerCase on one character
LowerChar(c) ==
    CASE c = "A" -> "a" [] c = "B" -> "b" [] c = "C" -> "c" [] c = "D" -> "d"
      [] c = "E" -> "e" [] c = "H" -> "h" [] c = "M" -> "m" [] c = "P" -> "p"
      [] OTHER -> c

toLowerCase(s) == [i \in 1..Len(s) |-> LowerChar(s[i])]

\* an includes that finds q at the start of s only
includesAtStart(s, q) ==
    Len(q) <= Len(s) /\ SubSeq(s, 1, Len(q)) = q

\* an includes that finds no empty string
includesNonEmpty(s, q) ==
    Len(q) > 0 /\ \E i \in 0..(Len(s) - Len(q)) : SubSeq(s, i + 1, i + Len(q)) = q

\* String.prototype.includes: q occurs in s as a contiguous substring
includes(s, q) ==
    \E i \in 0..(Len(s) - Len(q)) : SubSeq(s, i + 1, i + Len(q)) = q

\* ---------------------------------------------------------------- views
\* the views the header of Dashboard names
Views == {"dashboard", "ai-predictor", "analytics", "weather", "calculator", "about"}

\* the cases of renderContent that do not render LeafletMap
NonMapViews == {"ai-predictor", "analytics", "weather", "calculator", "about"}

\* the views whose header hides CityDropdown and the search box
NoSearchViews == {"about", "calculator"}

\* the views asked for: one that renders the map, one that renders neither
\* the map nor the search box, one that renders the search box only
ViewInputs == {"dashboard", "about", "analytics"}

\* -------------------------------------------------------------- datasets
\* a JSON value as fetchCitiesData sees it: an array of city records, some
\* other non-null value (an error object, an array of other things), null
Json(kind, items) == [kind |-> kind, items |-> items]

\* useState<CityData[]>([])
EmptyDataset == Json("array", <<>>)

\* the literal of the catch block
FallbackCities ==
    Json("array",
         << [name |-> Delhi, aqi |-> 168, source |-> "Mock Data"],
            [name |-> Mumbai, aqi |-> 95, source |-> "Mock Data"],
            [name |-> Hyderabad, aqi |-> 92, source |-> "Mock Data"],
            [name |-> Chennai, aqi |-> 78, source |-> "Mock Data"],
            [name |-> Bengaluru, aqi |-> 85, source |-> "Mock Data"] >>)

\* records the server may answer with
LiveRecords ==
    { [name |-> Delhi, aqi |-> 150, source |-> "Ambee API"],
      [name |-> Pune, aqi |-> 60, source |-> "Ambee API"] }

RECURSIVE SeqsUpTo(_, _)
SeqsUpTo(S, n) ==
    IF n = 0 THEN {<<>>}
    ELSE LET shorter == SeqsUpTo(S, n - 1)
         IN shorter \cup {Append(s, x) : s \in shorter, x \in S}

\* bodies response.json() may resolve to
Bodies ==
    {Json("array", s) : s \in SeqsUpTo(LiveRecords, MaxPayloadLen)}
        \cup {Json("object", <<>>), Json("null", <<>>)}

\* HTTP status of the response: success or not
Statuses == {200, 500}

\* texts of the search box
Queries == SeqsUpTo(QueryAlphabet, MaxQueryLen)

\* topCities of ../data/mockData, the list the search box filters
topCities ==
    << [name |-> Delhi, aqi |-> 168], [name |-> Mumbai, aqi |-> 95],
       [name |-> Chennai, aqi |-> 78] >>

RECURSIVE SelectSeq2(_, _, _)
\* Array.prototype.filter with the predicate of filteredCities
SelectSeq2(list, q, i) ==
    IF i > Len(list) THEN <<>>
    ELSE IF includes(toLowerCase(list[i].name), toLowerCase(q))
         THEN <<list[i]>> \o SelectSeq2(list, q, i + 1)
         ELSE SelectSeq2(list, q, i + 1)

\* topCities.filter(city => city.name.toLowerCase().includes(q.toLowerCase()))
filter(list, q) == SelectSeq2(list, q, 1)

VARIABLES
    activeView, selectedCity, aqiData, searchQuery, showSearchResults,
    isLoading, targetView,              \* Dashboard state
    cities, loading, lastUpdated,       \* LeafletMap state
    timer,                              \* the setInterval of LeafletMap is armed
    inflight,                           \* requests awaiting their response
    reqCount,                           \* requests started so far
    crashed,                            \* a render threw: React removed the tree
    last                                \* the handler that ran last: its name,
                                        \* where it was called from (for the
                                        \* view handlers: the controller's state
                                        \* at the call), its input

dashVars == <<activeView, selectedCity, aqiData, searchQuery, showSearchResults,
              isLoading, targetView>>
mapVars == <<cities, loading, lastUpdated, timer, inflight, reqCount>>
vars == <<dashVars, mapVars, crashed, last>>

Call(op, ctx, arg) == [op |-> op, ctx |-> ctx, arg |-> arg]

\* the view controller: Idle(active) when loading is false,
\* Transitioning(active, target) when it is true
Controller == [loading |-> isLoading, active |-> activeView, target |-> targetView]

\* getAQIData(city) of ../data/mockData: the AQI data of that city
getAQIData(city) == [city |-> city]

filteredCities == filter(topCities, searchQuery)

\* renderContent reaches its default case and Dashboard is not showing
\* LoadingScreen: LeafletMap is rendered
MapRendered(ld, view) == ~ld /\ view \notin NonMapViews

MapMounted == ~crashed /\ MapRendered(isLoading, activeView)

\* the header shows the search box
SearchRendered == ~crashed /\ ~isLoading /\ activeView \notin NoSearchViews

\* ------------------------------------------------- LeafletMap life cycle
\* the requests of an unmounted LeafletMap still run, their setters write
\* to nothing
Orphaned(reqs) == {[r EXCEPT !.live = FALSE] : r \in reqs}

\* fetchCitiesData up to its await: setLoading(true), the request is sent
fetchCitiesData ==
    /\ reqCount < MaxRequests
    /\ loading' = TRUE
    /\ reqCount' = reqCount + 1
    /\ inflight' = inflight \cup {[id |-> reqCount + 1, live |-> TRUE]}

\* first render of LeafletMap and its useEffect
MountMap ==
    /\ fetchCitiesData
    /\ cities' = EmptyDataset
    /\ lastUpdated' = reqCount
    /\ timer' = TRUE

\* an effect without its cleanup: the interval outlives the component
UnmountMapKeepTimer ==
    /\ inflight' = Orphaned(inflight)
    /\ cities' = EmptyDataset
    /\ loading' = FALSE
    /\ lastUpdated' = 0
    /\ UNCHANGED <<timer, reqCount>>

\* LeafletMap leaves the tree: the cleanup of the useEffect clears the
\* interval, React discards the component's state
UnmountMap ==
    /\ timer' = FALSE
    /\ inflight' = Orphaned(inflight)
    /\ cities' = EmptyDataset
    /\ loading' = FALSE
    /\ lastUpdated' = 0
    /\ UNCHANGED reqCount

\* what a Dashboard render does to LeafletMap
MapLifecycle(was, will) ==
    IF was /\ ~will THEN UnmountMap
    ELSE IF ~was /\ will THEN MountMap
    ELSE UNCHANGED mapVars

Init ==
    /\ activeView = "dashboard"
    /\ selectedCity \in UserStrings
    /\ aqiData = getAQIData(selectedCity)
    /\ searchQuery = <<>>
    /\ showSearchResults = FALSE
    /\ isLoading = FALSE
    /\ targetView = "dashboard"
    /\ cities = EmptyDataset
    /\ loading = TRUE
    /\ lastUpdated = 0
    /\ timer = TRUE
    /\ inflight = {[id |-> 1, live |-> TRUE]}
    /\ reqCount = 1
    /\ crashed = FALSE
    /\ last = Call("init", "app", selectedCity)

\* ------------------------------------------------------------- Dashboard
\* a handleCityChange that accepts only the names of the dataset on the map
handleCityChangeValidated(city) ==
    /\ selectedCity' =
           IF \E i \in 1..Len(cities.items) : cities.items[i].name = city
           THEN city ELSE selectedCity
    /\ aqiData' = getAQIData(selectedCity')
    /\ searchQuery' = <<>>
    /\ showSearchResults' = FALSE
    /\ UNCHANGED <<activeView, isLoading, targetView, mapVars, crashed>>

\* a handleCityChange that leaves the search box as it is
handleCityChangeKeepSearch(city) ==
    /\ selectedCity' = city
    /\ aqiData' = getAQIData(city)
    /\ UNCHANGED <<searchQuery, showSearchResults>>
    /\ UNCHANGED <<activeView, isLoading, targetView, mapVars, crashed>>

handleCityChange(city) ==
    /\ selectedCity' = city
    /\ aqiData' = getAQIData(city)
    /\ searchQuery' = <<>>
    /\ showSearchResults' = FALSE
    /\ UNCHANGED <<activeView, isLoading, targetView, mapVars, crashed>>

\* a handleViewChange that also switches the view at once
handleViewChangeImmediate(view) ==
    IF view # activeView
    THEN /\ targetView' = view
         /\ isLoading' = TRUE
         /\ activeView' = view
         /\ MapLifecycle(MapRendered(isLoading, activeView), FALSE)
         /\ UNCHANGED <<selectedCity, aqiData, searchQuery, showSearchResults,
                        crashed>>
    ELSE UNCHANGED <<dashVars, mapVars, crashed>>

\* a handleViewChange without its view !== activeView test
handleViewChangeNoGuard(view) ==
    /\ targetView' = view
    /\ isLoading' = TRUE
    /\ MapLifecycle(MapRendered(isLoading, activeView), FALSE)
    /\ UNCHANGED <<activeView, selectedCity, aqiData, searchQuery,
                   showSearchResults, crashed>>

\* a handleViewChange that ignores requests made during a transition
handleViewChangeFirstWins(view) ==
    IF view # activeView /\ ~isLoading
    THEN /\ targetView' = view
         /\ isLoading' = TRUE
         /\ MapLifecycle(MapRendered(isLoading, activeView), FALSE)
         /\ UNCHANGED <<activeView, selectedCity, aqiData, searchQuery,
                        showSearchResults, crashed>>
    ELSE UNCHANGED <<dashVars, mapVars, crashed>>

handleViewChange(view) ==
    IF view # activeView
    THEN /\ targetView' = view
         /\ isLoading' = TRUE
         /\ MapLifecycle(MapRendered(isLoading, activeView), FALSE)
         /\ UNCHANGED <<activeView, selectedCity, aqiData, searchQuery,
                        showSearchResults, crashed>>
    ELSE UNCHANGED <<dashVars, mapVars, crashed>>

\* a handleLoadingComplete that forgets setActiveView
handleLoadingCompleteStay ==
    /\ isLoading' = FALSE
    /\ MapLifecycle(MapRendered(isLoading, activeView), MapRendered(FALSE, activeView))
    /\ UNCHANGED <<activeView, selectedCity, aqiData, searchQuery,
                   showSearchResults, targetView, crashed>>

\* a handleLoadingComplete that also resets the pending target to the
\* default view
handleLoadingCompleteResetTarget ==
    /\ activeView' = targetView
    /\ isLoading' = FALSE
    /\ targetView' = "dashboard"
    /\ MapLifecycle(MapRendered(isLoading, activeView), MapRendered(FALSE, targetView))
    /\ UNCHANGED <<selectedCity, aqiData, searchQuery, showSearchResults, crashed>>

handleLoadingComplete ==
    /\ activeView' = targetView
    /\ isLoading' = FALSE
    /\ MapLifecycle(MapRendered(isLoading, activeView), MapRendered(FALSE, targetView))
    /\ UNCHANGED <<selectedCity, aqiData, searchQuery, showSearchResults,
                   targetView, crashed>>

\* Sidebar onViewChange, AQIDetails onNavigateToAnalytics
RequestView(view) ==
    /\ ~crashed
    /\ handleViewChange(view)
    /\ last' = Call("requestView", Controller, view)

\* LoadingScreen onComplete
CompleteTransition ==
    /\ ~crashed
    /\ handleLoadingComplete
    /\ last' = Call("completeTransition", Controller, targetView)

\* CityDropdown onCityChange
DropdownSelect(city) ==
    /\ ~crashed
    /\ handleCityChange(city)
    /\ last' = Call("select", "dropdown", city)

\* click on a button of the search results dropdown
SearchResultClick(i) ==
    /\ SearchRendered
    /\ showSearchResults
    /\ i \in 1..Len(filteredCities)
    /\ handleCityChange(filteredCities[i].name)
    /\ last' = Call("select", "search", filteredCities[i].name)

\* onChange of the search input
SearchChange(value) ==
    /\ SearchRendered
    /\ value # searchQuery
    /\ searchQuery' = value
    /\ showSearchResults' = (Len(value) > 0)
    /\ UNCHANGED <<activeView, selectedCity, aqiData, isLoading, targetView,
                   mapVars, crashed>>
    /\ last' = Call("searchChange", "input", value)

\* an onFocus that opens the results whatever the query is
SearchFocusAlways ==
    /\ SearchRendered
    /\ showSearchResults' = TRUE
    /\ UNCHANGED <<activeView, selectedCity, aqiData, searchQuery, isLoading,
                   targetView, mapVars, crashed>>
    /\ last' = Call("searchFocus", "input", <<>>)

\* onFocus of the search input
SearchFocus ==
    /\ SearchRendered
    /\ showSearchResults' = (Len(searchQuery) > 0)
    /\ UNCHANGED <<activeView, selectedCity, aqiData, searchQuery, isLoading,
                   targetView, mapVars, crashed>>
    /\ last' = Call("searchFocus", "input", <<>>)

\* ------------------------------------------------------------ LeafletMap
\* LeafletMap renders its markers and the Refresh button
MapShown == MapMounted /\ ~loading

\* click on the marker of cities[i]
MarkerClick(i) ==
    /\ MapShown
    /\ i \in 1..Len(cities.items)
    /\ handleCityChange(cities.items[i].name)
    /\ last' = Call("select", "marker", cities.items[i].name)

\* click on the Refresh button (disabled={loading})
RefreshClick ==
    /\ MapShown
    /\ fetchCitiesData
    /\ UNCHANGED <<dashVars, cities, lastUpdated, timer, crashed>>
    /\ last' = Call("refresh", "button", reqCount + 1)

\* the setInterval callback
TimerTick ==
    /\ ~crashed
    /\ timer
    /\ fetchCitiesData
    /\ UNCHANGED <<dashVars, cities, lastUpdated, timer, crashed>>
    /\ last' = Call("refresh", "timer", reqCount + 1)

\* cities.map(...) of the render throws unless cities is an array of city
\* records; without an error boundary React then removes the whole tree
RenderThrows(data) == data.kind # "array"

\* setters that reach the state whichever component instance started the
\* request
SettleAlways(r, data, stamp) ==
    /\ cities' = data
    /\ lastUpdated' = IF stamp THEN reqCount ELSE lastUpdated
    /\ loading' = FALSE
    /\ inflight' = inflight \ {r}
    /\ UNCHANGED <<dashVars, reqCount, timer, crashed>>

\* the state writes of one completed fetchCitiesData, React batching them
\* into one render: data is the new cities, stamp whether setLastUpdated ran
\* (the setters of an unmounted component change nothing)
Settle(r, data, stamp) ==
    IF r.live
    THEN /\ cities' = data
         /\ lastUpdated' = IF stamp THEN reqCount ELSE lastUpdated
         /\ loading' = FALSE
         /\ crashed' = RenderThrows(data)
         /\ timer' = IF RenderThrows(data) THEN FALSE ELSE timer
         /\ inflight' = IF RenderThrows(data)
                        THEN Orphaned(inflight \ {r})
                        ELSE inflight \ {r}
         /\ UNCHANGED <<dashVars, reqCount>>
    ELSE /\ inflight' = inflight \ {r}
         /\ UNCHANGED <<dashVars, cities, loading, lastUpdated, timer,
                        reqCount, crashed>>

\* what the try block leaves in cities when response.json() resolved to
\* body: setCities(data); setLastUpdated(..); data.length throws on null
\* and the catch block then sets the fallback
Resolved(body) == IF body.kind = "null" THEN FallbackCities ELSE body

\* a catch block that logs the error and sets no fallback
FetchFailNoFallback(r, cause) ==
    /\ r \in inflight
    /\ Settle(r, cities, FALSE)
    /\ last' = Call("fetchFailed", cause, r.live)

\* fetch rejects (network error), or response.json() rejects (the body is
\* not JSON): the catch block
FetchFail(r, cause) ==
    /\ r \in inflight
    /\ Settle(r, FallbackCities, FALSE)
    /\ last' = Call("fetchFailed", cause, r.live)

\* fetch and response.json() both resolve; response.ok is never read
FetchResolve(r, status, body) ==
    /\ r \in inflight
    /\ Settle(r, Resolved(body), TRUE)
    /\ last' = Call("fetchResolved", [status |-> status, kind |-> body.kind], r.live)

Next ==
    \/ \E view \in ViewInputs : RequestView(view)
    \/ CompleteTransition
    \/ \E city \in UserStrings : DropdownSelect(city)
    \/ \E i \in 1..Len(topCities) : SearchResultClick(i)
    \/ \E value \in Queries : SearchChange(value)
    \/ SearchFocus
    \/ \E i \in 1..(MaxPayloadLen + 5) : MarkerClick(i)
    \/ RefreshClick
    \/ TimerTick
    \/ \E r \in inflight, cause \in {"network", "notJson"} : FetchFail(r, cause)
    \/ \E r \in inflight, status \in Statuses, body \in Bodies :
           FetchResolve(r, status, body)

Spec == Init /\ [][Next]_vars

\* ------------------------------------------- the filter of filteredCities
\* The expression of filteredCities applied, on its own, to every short list
\* of city records and every search text: last holds the list, the text
\* and the result.
FilterRecords == {FallbackCities.items[i] : i \in {1, 2, 4}}

InitFilter ==
    /\ activeView = "dashboard"
    /\ selectedCity = Delhi
    /\ aqiData = getAQIData(selectedCity)
    /\ searchQuery = <<>>
    /\ showSearchResults = FALSE
    /\ isLoading = FALSE
    /\ targetView = "dashboard"
    /\ cities = EmptyDataset
    /\ loading = TRUE
    /\ lastUpdated = 0
    /\ timer = TRUE
    /\ inflight = {[id |-> 1, live |-> TRUE]}
    /\ reqCount = 1
    /\ crashed = FALSE
    /\ \E list \in SeqsUpTo(FilterRecords, MaxDatasetLen), q \in Queries :
           last = Call("input", [list |-> list, query |-> q], <<>>)

\* list.filter(city => city.name.toLowerCase().includes(q.toLowerCase()))
ApplyFilter ==
    /\ last.op = "input"
    /\ last' = Call("filter", last.ctx, filter(last.ctx.list, last.ctx.query))
    /\ UNCHANGED <<dashVars, mapVars, crashed>>

\* the same filter applied to its own result
ApplyFilterAgain ==
    /\ last.op = "filter"
    /\ last' = Call("refilter", [list |-> last.arg, query |-> last.ctx.query],
                    filter(last.arg, last.ctx.query))
    /\ UNCHANGED <<dashVars, mapVars, crashed>>

NextFilter ==
    \/ ApplyFilter
    \/ ApplyFilterAgain

SpecFilter == InitFilter /\ [][NextFilter]_vars

\* ================================================================ claims
Sources(data) == {data.items[i].source : i \in 1..Len(data.items)}
Names(data) == {data.items[i].name : i \in 1..Len(data.items)}

C2_AtMostOneInFlight == Cardinality(inflight) <= 1

\* C3: a refresh whose response has a non-success status or a malformed
\* payload replaces Dataset by the built-in fallback set, as a network
\* failure does.
C3_BadResponseFallsBack ==
    (/\ last.op = "fetchResolved"
     /\ last.arg
     /\ (last.ctx.status # 200 \/ last.ctx.kind # "array"))
        => cities = FallbackCities

\* C4: the selected city is the initial user city until select is called,
\* every select(x) sets it to x, whatever x is, and no other operation
\* changes it.
C4_SelectIsOnlyWriter ==
    /\ (last.op = "init" => selectedCity = last.arg)
    /\ [][IF last'.op = "select"
          THEN selectedCity' = last'.arg
          ELSE selectedCity' = selectedCity]_vars

C4_Witness ==
    /\ last.op = "select"
    /\ selectedCity = last.arg
    /\ MapShown
    /\ Len(cities.items) > 0
    /\ selectedCity \notin Names(cities)

\* C5: right after any select, the search query is empty and the search
\* results are hidden.
C5_SelectClearsSearch ==
    last.op = "select" => (searchQuery = <<>> /\ showSearchResults = FALSE)

C5_Witness ==
    /\ last.op = "select" /\ last.ctx = "search"
    /\ searchQuery = <<>> /\ showSearchResults = FALSE

\* C6: requestView(t) from Idle(a) with t # a gives Transitioning(a, t), and
\* during a transition the active view changes by completeTransition only.
C6_RequestStartsTransition ==
    [][/\ (~isLoading /\ last'.op = "requestView" /\ last'.arg # activeView)
            => (isLoading' /\ targetView' = last'.arg /\ activeView' = activeView)
       /\ (isLoading /\ last'.op # "completeTransition")
            => activeView' = activeView]_vars

C6_Witness ==
    /\ last.op = "requestView" /\ ~last.ctx.loading
    /\ last.arg # last.ctx.active
    /\ Controller = [loading |-> TRUE, active |-> last.ctx.active, target |-> last.arg]

\* C7: requestView(a) from Idle(a) changes nothing of the controller.
C7_RequestSameViewNoOp ==
    (last.op = "requestView" /\ ~last.ctx.loading /\ last.arg = last.ctx.active)
        => Controller = last.ctx

C7_Witness ==
    /\ last.op = "requestView" /\ ~last.ctx.loading
    /\ last.arg = last.ctx.active
    /\ last.ctx.active # "dashboard"
    /\ Controller = last.ctx

\* C8: completeTransition from Transitioning(a, t) gives Idle(t).
C8_CompleteMovesToTarget ==
    (last.op = "completeTransition" /\ last.ctx.loading)
        => (~isLoading /\ activeView = last.ctx.target)

C8_Witness ==
    /\ last.op = "completeTransition" /\ last.ctx.loading
    /\ last.ctx.target # last.ctx.active
    /\ ~isLoading /\ activeView = last.ctx.target

\* C9: completeTransition from Idle changes nothing of the controller.
C9_CompleteWhileIdleNoOp ==
    (last.op = "completeTransition" /\ ~last.ctx.loading) => Controller = last.ctx

C9_Witness ==
    /\ last.op = "completeTransition" /\ ~last.ctx.loading
    /\ last.ctx.active # "dashboard"
    /\ Controller = last.ctx

\* C10, as stated: a requestView during a transition leaves the pending
\* target as it was (the first request wins).
C10_FirstRequestWins ==
    (last.op = "requestView" /\ last.ctx.loading) => targetView = last.ctx.target

\* C10, amended: a requestView(v) during Transitioning(a, t) makes v the
\* pending target when v # a and leaves t when v = a (the last request for
\* another view wins); completeTransition then gives Idle of the target
\* pending when it is called.
C10_LastRequestWins ==
    /\ (last.op = "requestView" /\ last.ctx.loading)
         => Controller = [loading |-> TRUE, active |-> last.ctx.active,
                          target |-> IF last.arg # last.ctx.active
                                     THEN last.arg ELSE last.ctx.target]
    /\ (last.op = "completeTransition" /\ last.ctx.loading)
         => Controller = [loading |-> FALSE, active |-> last.ctx.target,
                          target |-> last.ctx.target]

C10_Witness ==
    /\ last.op = "requestView" /\ last.ctx.loading
    /\ last.arg # last.ctx.target
    /\ targetView = last.arg

\* C11: a refresh is started once when LeafletMap is created (the first
\* one at start-up) and once per timer tick; the timer is armed exactly
\* while the map is mounted, so that after teardown it starts no refresh.
C11_PollingLifecycle ==
    /\ (reqCount = 1 /\ Cardinality(inflight) = 1 /\ timer = TRUE)
    /\ [][/\ (~MapMounted /\ MapMounted')
               => (reqCount' = reqCount + 1 /\ timer'
                   /\ inflight' = inflight \cup {[id |-> reqCount', live |-> TRUE]})
          /\ (last'.op = "refresh" /\ last'.ctx = "timer")
               => (MapMounted /\ timer /\ reqCount' = reqCount + 1
                   /\ inflight' = inflight \cup {[id |-> reqCount', live |-> TRUE]})
          /\ (last'.op \notin {"refresh", "completeTransition"})
               => reqCount' = reqCount
          /\ timer' = MapMounted']_vars

\* the map was torn down by a view change after a timer tick had started a
\* second request: the timer is off
C11_Witness ==
    /\ last.op = "requestView" /\ ~last.ctx.loading
    /\ ~MapMounted /\ ~timer
    /\ reqCount = 2 /\ Cardinality(inflight) = 2

\* C12: a fetch that completes after its LeafletMap was torn down writes
\* neither Dataset nor the loading flag nor the last-updated timestamp.
C12_OrphanResultDiscarded ==
    [][(last'.op \in {"fetchFailed", "fetchResolved"} /\ ~last'.arg)
          => UNCHANGED <<cities, loading, lastUpdated>>]_vars

\* the response to a request of the first map arrived with a city array
\* while a view transition had the map unmounted
C12_Witness ==
    /\ last.op = "fetchResolved" /\ ~last.arg /\ last.ctx.kind = "array"
    /\ isLoading /\ ~MapMounted
    /\ cities = EmptyDataset /\ loading = FALSE /\ lastUpdated = 0

\* C13: when a refresh of the mounted map completes, by its success path
\* or by its failure path, the loading flag is false and Dataset is a
\* dataset the map can render.
C13_CompletesRenderable ==
    (last.op \in {"fetchFailed", "fetchResolved"} /\ last.arg)
        => (loading = FALSE /\ ~RenderThrows(cities) /\ ~crashed)

CasePairs ==
    { {"A", "a"}, {"B", "b"}, {"C", "c"}, {"D", "d"}, {"E", "e"}, {"H", "h"},
      {"M", "m"}, {"P", "p"} }
SameLetter(a, b) == a = b \/ {a, b} \in CasePairs

\* q occurs in s, letter by letter, whatever the case
ContainsIgnoringCase(s, q) ==
    \E i \in 0..(Len(s) - Len(q)) :
        \A k \in 1..Len(q) : SameLetter(s[i + k], q[k])

\* the positions of D whose name contains q, and the k-th of them
Matching(D, q) == {i \in 1..Len(D) : ContainsIgnoringCase(D[i].name, q)}
Nth(S, k) == CHOOSE i \in S : Cardinality({j \in S : j < i}) = k - 1

\* the records of D whose name contains q, in the order of D
Expected(D, q) ==
    [k \in 1..Cardinality(Matching(D, q)) |-> D[Nth(Matching(D, q), k)]]

\* C15: the filter returns exactly the records of D whose name contains q
\* whatever the case, in the order of D, and applied to its own result it
\* returns that result.
C15_FilterExactOrderedIdempotent ==
    /\ last.op = "filter" => last.arg = Expected(last.ctx.list, last.ctx.query)
    /\ last.op = "refilter" => last.arg = last.ctx.list

\* Delhi, Mumbai, Chennai filtered by "E" twice: Delhi, Chennai
C15_Witness ==
    /\ last.op = "refilter" /\ last.ctx.query = <<"E">>
    /\ Len(last.arg) = 2
    /\ last.arg[1].name = Delhi /\ last.arg[2].name = Chennai

NameList(list) == [i \in 1..Len(list) |-> list[i].name]

\* C16: once a refresh has completed and the map shows its Dataset, the
\* cities offered as search results are the records of that Dataset whose
\* name matches the query, all of them and no others.
C16_ResultsFromDataset ==
    (MapShown /\ SearchRendered /\ showSearchResults)
        => NameList(filteredCities) = NameList(filter(cities.items, searchQuery))

\* the requests whose response will still write to the mounted map
LiveInflight == {r \in inflight : r.live}

\* C17: while the map is mounted, its loading flag is true exactly when at
\* least one of its fetches is in flight.
C17_LoadingIffInFlight ==
    MapMounted => (loading <=> LiveInflight # {})

\* C18: a response that changes Dataset and leaves no fetch of the map in
\* flight is the response to the request that was started last: once all
\* overlapping refreshes have completed, Dataset holds the outcome of the
\* newest one, and no older response has overwritten it.
C18_NewestRefreshWins ==
    [][(/\ last'.op \in {"fetchFailed", "fetchResolved"}
        /\ last'.arg
        /\ ~crashed'
        /\ LiveInflight' = {}
        /\ cities' # cities)
          => \A r \in inflight \ inflight' : r.id = reqCount]_vars

\* C19: whenever the dashboard is not in a transition, the pending target
\* view is the active view.
C19_IdleTargetIsActive ==
    ~isLoading => targetView = activeView

C19_Witness ==
    /\ last.op = "completeTransition" /\ last.ctx.loading
    /\ last.ctx.target # "dashboard"
    /\ ~isLoading /\ targetView = activeView /\ targetView = last.ctx.target

\* C20: the search results are flagged visible only while the search query
\* is non-empty.
C20_ResultsVisibleOnlyWithQuery ==
    showSearchResults => searchQuery # <<>>

C20_Witness ==
    /\ last.op = "searchFocus"
    /\ showSearchResults /\ searchQuery # <<>>

=============================================================================
